---- MODULE Spec2Model ----
(***************************************************************************)
(* A model of yt_scrape_tool's persistence layer (src/yt_tool/database.py) *)
(* the metric parser _parse_views, the batch writer save_results and the   *)
(* trending report get_trending, over one SQLite file shared by every      *)
(* connection.                                                             *)
(*                                                                         *)
(* Text is a sequence of one-character strings, so that strip, lower,      *)
(* replace and endswith are computed character by character.  Timestamps   *)
(* ("%Y-%m-%d %H:%M:%S" strings, whose lexicographic order is the order of *)
(* the seconds they name) are natural numbers.                             *)
(***************************************************************************)
EXTENDS Integers, Sequences, FiniteSets, TLC

VARIABLES
    videos,     \* committed rows of table videos (a set of rows)
    snaps,      \* committed rows of table view_snapshots, in rowid order
    lock,       \* the writer whose connection holds the write lock, or 0
    tvideos,    \* table videos as seen inside the open write transaction
    tsnaps,     \* table view_snapshots inside the open write transaction
    wr,         \* per writer process: the locals of its save_results call
    clock,      \* the wall clock, in seconds
    nrec,       \* number of records the save_results loops have taken so far
    last,       \* the most recent operation and what it returned
    pin,        \* the text handed to _parse_views
    pout,       \* what _parse_views produced for pin
    tracked,    \* rows of table tracked_queries, in rowid order
    trk         \* the scheduler process: where cmd_start_scheduler stands

vars == <<videos, snaps, lock, tvideos, tsnaps, wr, clock, nrec, last, pin, pout,
          tracked, trk>>

storeVars == <<videos, snaps, lock, tvideos, tsnaps, wr, clock, nrec, last,
               tracked, trk>>

trackVars == <<tracked, trk>>

(***************************************************************************)
(* Bounds of the model.                                                    *)
(***************************************************************************)
MaxTok == 3        \* tokens in a text handed to the parser
MaxRecords == 3       \* records taken from the batches of one behaviour (Spec)
MaxTrendRecords == 2  \* the same, where the trending report is read (SpecTrend)
MaxConcRecords == 3   \* the same, with two writers (SpecConc)
MaxTime == 2       \* last second of the wall clock
MaxConcTime == 1   \* the same, with two writers (SpecConc)
MaxLimit == 2      \* largest limit handed to get_trending
MaxReadRecords == 2   \* the same, where reads meet a batch in progress (SpecRead)
MaxRuns == 2          \* tracker runs of one scheduler process (SpecTrack)
MaxTrackRecords == 4  \* records taken from the batches of the tracker runs

(***************************************************************************)
(* Text helpers: Python's str methods on sequences of characters.          *)
(***************************************************************************)
DigitChars == <<"0", "1", "2", "3", "4", "5", "6", "7", "8", "9">>

IsDigit(c) == \E i \in 1..10 : DigitChars[i] = c

DigitVal(c) == (CHOOSE i \in 1..10 : DigitChars[i] = c) - 1

\* str.lower(), on the upper-case letters of the alphabet
LowerChar(c) ==
    CASE c = "M" -> "m"
      [] c = "N" -> "n"
      [] c = "A" -> "a"
      [] c = "K" -> "k"
      [] c = "B" -> "b"
      [] c = "V" -> "v"
      [] OTHER   -> c

Lower(s) == [i \in 1..Len(s) |-> LowerChar(s[i])]

RECURSIVE LStrip(_)
LStrip(s) == IF s # <<>> /\ s[1] = " " THEN LStrip(Tail(s)) ELSE s

RECURSIVE RStrip(_)
RStrip(s) ==
    IF s # <<>> /\ s[Len(s)] = " " THEN RStrip(SubSeq(s, 1, Len(s) - 1)) ELSE s

\* str.strip()
Strip(s) == RStrip(LStrip(s))

\* str.replace(pat, ""): non-overlapping occurrences, left to right, one pass
RECURSIVE RemoveAll(_, _)
RemoveAll(s, pat) ==
    IF Len(s) < Len(pat) THEN s
    ELSE IF SubSeq(s, 1, Len(pat)) = pat
         THEN RemoveAll(SubSeq(s, Len(pat) + 1, Len(s)), pat)
         ELSE <<s[1]>> \o RemoveAll(Tail(s), pat)

\* str.endswith(c) for a one-character suffix
EndsWith(s, c) == s # <<>> /\ s[Len(s)] = c

RECURSIVE DropLeadingZeros(_)
DropLeadingZeros(d) ==
    IF Len(d) > 1 /\ d[1] = 0 THEN DropLeadingZeros(Tail(d)) ELSE d

Zeros(n) == [i \in 1..n |-> 0]

(***************************************************************************)
(* float(): the text forms Python accepts among the characters of the      *)
(* alphabet (surrounding blanks, a sign, inf / infinity / nan, digits with *)
(* at most one point).  A number is kept exactly, as its sign, its integer *)
(* digits and its fraction digits.                                         *)
(***************************************************************************)
FloatErr == [kind |-> "ValueError"]
FloatInf == [kind |-> "inf"]
FloatNan == [kind |-> "nan"]

PointAt(t) == IF \E i \in 1..Len(t) : t[i] = "."
              THEN CHOOSE i \in 1..Len(t) : t[i] = "." /\ \A j \in 1..(i - 1) : t[j] # "."
              ELSE Len(t) + 1

ParseFloat(s) ==
    LET t    == Strip(s)
        neg  == t # <<>> /\ t[1] = "-"
        body == IF t # <<>> /\ t[1] \in {"-", "+"} THEN Tail(t) ELSE t
        p    == PointAt(body)
        ip   == SubSeq(body, 1, p - 1)
        fp   == SubSeq(body, p + 1, Len(body))
    IN  IF body \in {<<"i", "n", "f">>, <<"i", "n", "f", "i", "n", "i", "t", "y">>}
            THEN FloatInf
        ELSE IF body = <<"n", "a", "n">> THEN FloatNan
        ELSE IF /\ \A i \in 1..Len(ip) : IsDigit(ip[i])
                /\ \A i \in 1..Len(fp) : IsDigit(fp[i])
                /\ Len(ip) + Len(fp) >= 1
            THEN [kind |-> "num", neg |-> neg,
                  int  |-> [i \in 1..Len(ip) |-> DigitVal(ip[i])],
                  frac |-> [i \in 1..Len(fp) |-> DigitVal(fp[i])]]
        ELSE FloatErr

(***************************************************************************)
(* The three outcomes of _parse_views: None, an integer (unbounded in      *)
(* Python: kept as sign and decimal digits), or an exception that leaves   *)
(* the function.                                                           *)
(***************************************************************************)
None == [tag |-> "None"]

Raised(exc) == [tag |-> "raise", exc |-> exc]

IntResult(neg, digits) ==
    LET d == DropLeadingZeros(IF digits = <<>> THEN <<0>> ELSE digits)
    IN  [tag |-> "int", neg |-> (neg /\ d # <<0>>), digits |-> d]

\* int(float(text) * 10^e) inside "try ... except ValueError: return None"
TruncMul(f, e) ==
    IF f.kind = "ValueError" THEN None          \* float() raised ValueError
    ELSE IF f.kind = "nan" THEN None            \* int(nan) raises ValueError
    ELSE IF f.kind = "inf" THEN Raised("OverflowError")  \* int(inf): not caught
    ELSE LET all == f.int \o f.frac
             n   == Len(f.frac)
         IN  IF e >= n
             THEN IntResult(f.neg, all \o Zeros(e - n))
             ELSE IntResult(f.neg, SubSeq(all, 1, Len(all) - (n - e)))

Placeholders == { <<"N", "/", "A">>, <<"N", "o", " ", "v", "i", "e", "w", "s">>, <<>> }

WordViews == <<"v", "i", "e", "w", "s">>

\* _parse_views(views_text)
ParseViews(text) ==
    IF text = <<>> \/ Strip(text) \in Placeholders THEN None
    ELSE LET s == Strip(RemoveAll(RemoveAll(Lower(text), WordViews), <<",">>))
             prefix == SubSeq(s, 1, Len(s) - 1)
         IN  IF EndsWith(s, "k") THEN TruncMul(ParseFloat(prefix), 3)
             ELSE IF EndsWith(s, "m") THEN TruncMul(ParseFloat(prefix), 6)
             ELSE IF EndsWith(s, "b") THEN TruncMul(ParseFloat(prefix), 9)
             ELSE TruncMul(ParseFloat(s), 0)

(***************************************************************************)
(* The texts the parser is tried on: up to MaxTok tokens in a row.         *)
(***************************************************************************)
Tokens ==
    { <<"0">>, <<"1">>, <<"5">>, <<".">>, <<",">>, <<"-">>, <<" ">>,
      <<"k">>, <<"M">>, <<"b">>, WordViews, <<"N", "/", "A">>, <<"N", "o">>,
      <<"i", "n", "f">>, <<"n", "a", "n">> }

RECURSIVE Texts(_)
Texts(n) ==
    IF n = 0 THEN { <<>> }
    ELSE Texts(n - 1) \cup { t \o k : t \in Texts(n - 1), k \in Tokens }

(***************************************************************************)
(* The store.  NULL is the empty sequence and a stored integer n is <<n>>, *)
(* so that a nullable column has one type.                                 *)
(***************************************************************************)
Null == <<>>

Some(n) == <<n>>

Vids == {"a", "b"}
Queries == {"q1", "q2"}
Fields == {"video_id", "title", "channel", "duration", "views", "url"}

\* the title and channel a record shows a video with
Looks == { <<"t1", "c2">>, <<"t2", "c1">> }

HugeViews == <<"1", "0", "0", "0", "0", "0", "0", "0", "0", "0", "0", "b">>

DurationOf(title) == IF title = "t1" THEN "d1" ELSE "d2"

\* scrape_youtube derives the url from the video id
UrlOf(v) == <<"https://youtube.com/watch?v=", v>>

\* A record of a batch; missing names the key the dict lacks, if any.
\* duration and url are derived from title and video_id.
Rec(v, look, vw, missing) ==
    [video_id |-> v, title |-> look[1], channel |-> look[2], views |-> vw,
     missing |-> missing]

\* the records of the batches that exercise the writer
Records ==
    { Rec("a", <<"t1", "c2">>, vw, "none") :
        vw \in { <<"N", "/", "A">>, <<"0">>, <<"1", "k">>, <<"i", "n", "f">>, HugeViews } }
    \cup
    { Rec("a", <<"t2", "c1">>, <<"1", "k">>, "none"),
      Rec("b", <<"t1", "c2">>, <<"1", "k">>, "none") }
    \cup
    { Rec("a", <<"t1", "c2">>, <<"0">>, f) : f \in Fields }

\* the records of the batches that feed the trending report
TrendRecords ==
    { Rec(v, <<"t1", "c2">>, vw, "none") :
        v \in Vids, vw \in { <<"0">>, <<"1", "k">>, <<"1", ".", "5", "k">> } }

\* the records of the batches that are in progress when the store is read
ReadRecords ==
    { Rec(v, <<"t1", "c2">>, <<"1", ".", "5", "k">>, "none") : v \in Vids }

\* the records of the batches of two concurrent writers
ConcRecords ==
    { Rec("a", <<"t1", "c2">>, <<"0">>, "none"), Rec("a", <<"t2", "c1">>, <<"1", "k">>, "none") }

Has(r, f) == r.missing # f

\* r.get("views", "")
ViewsText(r) == IF Has(r, "views") THEN r.views ELSE <<>>

RECURSIVE DigitsToInt(_)
DigitsToInt(d) ==
    IF d = <<>> THEN 0 ELSE 10 * DigitsToInt(SubSeq(d, 1, Len(d) - 1)) + d[Len(d)]

\* the Python int of a parse result, for the values the model stores
IntOf(p) == IF p.neg THEN 0 - DigitsToInt(p.digits) ELSE DigitsToInt(p.digits)

MaxInt64Digits == <<9, 2, 2, 3, 3, 7, 2, 0, 3, 6, 8, 5, 4, 7, 7, 5, 8, 0, 7>>

RECURSIVE DigitsLeq(_, _)
DigitsLeq(a, b) ==
    IF a = <<>> THEN TRUE
    ELSE IF a[1] # b[1] THEN a[1] < b[1]
    ELSE DigitsLeq(Tail(a), Tail(b))

\* sqlite3 binds a Python int only if it fits a signed 64-bit INTEGER
\* (the one negative value of 19 digits that fits, -2^63, is left out)
FitsSqlite(p) ==
    \/ p.tag = "None"
    \/ /\ p.tag = "int"
       /\ \/ Len(p.digits) < 19
          \/ Len(p.digits) = 19 /\ DigitsLeq(p.digits, MaxInt64Digits)

ViewsIntOf(p) == IF p.tag = "None" THEN Null ELSE Some(IntOf(p))

\* SELECT views_int FROM videos WHERE video_id = ? AND query = ?
Existing(rows, v, q) == { x \in rows : x.video_id = v /\ x.query = q }

NewRow(r, q, now, vi) ==
    [video_id |-> r.video_id, query |-> q, title |-> r.title,
     channel |-> r.channel, duration |-> DurationOf(r.title),
     views |-> r.views, views_int |-> vi, url |-> UrlOf(r.video_id),
     scraped_at |-> now]

\* a mutant of UpdateRow: the SET clause leaves scraped_at out
UpdateRowKeepingScrapedAt(x, r, now, vi) ==
    [x EXCEPT !.views = r.views, !.views_int = vi]

\* ON CONFLICT(video_id, query) DO UPDATE SET views, views_int, scraped_at
UpdateRow(x, r, now, vi) ==
    [x EXCEPT !.views = r.views, !.views_int = vi, !.scraped_at = now]

\* a mutant of UpsertRow: a plain INSERT into a table without UNIQUE(video_id, query)
UpsertRowPlainInsert(rows, r, q, now, vi) == rows \cup { NewRow(r, q, now, vi) }

\* INSERT INTO videos ... ON CONFLICT(video_id, query) DO UPDATE ...
UpsertRow(rows, r, q, now, vi) ==
    IF Existing(rows, r.video_id, q) = {}
    THEN rows \cup { NewRow(r, q, now, vi) }
    ELSE { IF x \in Existing(rows, r.video_id, q) THEN UpdateRow(x, r, now, vi) ELSE x
           : x \in rows }

\* a mutant of ShouldSnapshot: a snapshot for every parsed sighting
ShouldSnapshotAlways(vi, is_new, old) == vi # Null

\* if views_int is not None and (is_new or views_int != old_views_int)
ShouldSnapshot(vi, is_new, old) == vi # Null /\ (is_new \/ vi # old)

\* INSERT INTO view_snapshots (video_id, views_int, recorded_at)
AppendSnapshot(S, v, vi, now) ==
    Append(S, [video_id |-> v, views_int |-> vi[1], recorded_at |-> now])

\* a mutant of CountNew: every saved record is counted
CountNewAlways(n, is_new) == n + 1

\* if is_new: new_count += 1
CountNew(n, is_new) == IF is_new THEN n + 1 ELSE n

(***************************************************************************)
(* save_results, one connection per call.  A call is at the head of its    *)
(* loop ("loop") or between the SELECT and the INSERT of a record          *)
(* ("upsert").  intx is the connection's in_transaction flag, shared tells *)
(* that the connection holds a read lock on the file, any that the loop    *)
(* has taken a record (cmd_search and run_tracker call save_results with a *)
(* non-empty batch only).                                                  *)
(***************************************************************************)
NoRec == [missing |-> "all"]

Idle == [pc |-> "idle", query |-> "q1", now |-> 0, new_count |-> 0,
         r |-> NoRec, is_new |-> FALSE, old |-> Null, bad |-> FALSE,
         intx |-> FALSE, shared |-> FALSE, any |-> FALSE]

Procs == DOMAIN wr

\* what a connection reads: its own transaction's tables, or the committed ones
ViewVideos(w) == IF lock = w THEN tvideos ELSE videos

ViewSnaps(w) == IF lock = w THEN tsnaps ELSE snaps

\* a mutant of ReadVideos: a reader that sees the uncommitted rows of videos
ReadVideosDirty == IF lock # 0 THEN tvideos ELSE videos

\* what the connection of a read operation sees: the committed tables (the
\* journal keeps the writer's changes apart until its commit)
ReadVideos == videos

ReadSnaps == snaps

\* the statements of one connection cannot run while another holds a read lock
OthersShared(w) == \E o \in Procs \ {w} : wr[o].shared

Op(name, w, r) == [op |-> name, w |-> w, r |-> r]

\* conn = sqlite3.connect(DB_FILE); now = datetime.now()...; new_count = 0
Start(w, q, t) ==
    /\ wr[w].pc = "idle"
    /\ t \in {clock, clock + 1} /\ t <= MaxTime
    /\ wr' = [wr EXCEPT ![w] = [Idle EXCEPT !.pc = "loop", !.query = q, !.now = t]]
    /\ clock' = t
    /\ last' = Op("start", w, NoRec)
    /\ UNCHANGED <<videos, snaps, lock, tvideos, tsnaps, nrec, pin, pout>>

\* an exception leaves save_results: the connection is dropped uncommitted
RaiseOut(w, exc, taken) ==
    /\ wr' = [wr EXCEPT ![w] = Idle]
    /\ lock' = IF lock = w THEN 0 ELSE lock
    /\ tvideos' = IF lock = w THEN {} ELSE tvideos
    /\ tsnaps' = IF lock = w THEN <<>> ELSE tsnaps
    /\ last' = [op |-> "save_results", w |-> w, outcome |-> "raise", exc |-> exc,
                bad |-> wr[w].bad]
    /\ nrec' = nrec + taken
    /\ UNCHANGED <<videos, snaps, clock, pin, pout>>

\* except Exception as e: logger.warning(...); the loop goes on
SkipRecord(w, r, name, intx, shared) ==
    /\ wr' = [wr EXCEPT ![w].pc = "loop", ![w].any = TRUE,
                        ![w].bad = (@ \/ name = "skip"),
                        ![w].r = NoRec, ![w].is_new = FALSE, ![w].old = Null,
                        ![w].intx = intx, ![w].shared = shared]
    /\ last' = Op(name, w, r)
    /\ nrec' = IF wr[w].pc = "loop" THEN nrec + 1 ELSE nrec
    /\ UNCHANGED <<videos, snaps, lock, tvideos, tsnaps, clock, pin, pout>>

\* for r in results: views_int = _parse_views(...); the SELECT; the
\* evaluation of the INSERT's parameters
Fetch(w, r) ==
    /\ wr[w].pc = "loop"
    /\ LET p == ParseViews(ViewsText(r))
           ex == Existing(ViewVideos(w), r.video_id, wr[w].query)
       IN  IF p.tag = "raise" THEN RaiseOut(w, p.exc, 1)
           ELSE IF ~Has(r, "video_id")       \* KeyError before the SELECT
                THEN SkipRecord(w, r, "skip", wr[w].intx, wr[w].shared)
           ELSE IF r.missing # "none"        \* KeyError after the SELECT
                THEN SkipRecord(w, r, "skip", wr[w].intx, wr[w].intx)
           ELSE /\ wr' = [wr EXCEPT ![w].pc = "upsert", ![w].r = r, ![w].any = TRUE,
                                    ![w].is_new = (ex = {}),
                                    ![w].old = IF ex = {} THEN Null
                                               ELSE (CHOOSE x \in ex : TRUE).views_int,
                                    ![w].shared = wr[w].intx]
                /\ last' = Op("select", w, r)
                /\ nrec' = nrec + 1
                /\ UNCHANGED <<videos, snaps, lock, tvideos, tsnaps, clock, pin, pout>>

\* the INSERT ... ON CONFLICT, the count and the snapshot of one record
Upsert(w) ==
    /\ wr[w].pc = "upsert"
    /\ LET r  == wr[w].r
           p  == ParseViews(ViewsText(r))
       IN  IF ~FitsSqlite(p) THEN SkipRecord(w, r, "toobig", TRUE, wr[w].shared)
           ELSE /\ lock \in {0, w}
                /\ LET vi == ViewsIntOf(p) IN
                   /\ tvideos' = UpsertRow(ViewVideos(w), r, wr[w].query, wr[w].now, vi)
                   /\ tsnaps' = IF ShouldSnapshot(vi, wr[w].is_new, wr[w].old)
                                THEN AppendSnapshot(ViewSnaps(w), r.video_id, vi, wr[w].now)
                                ELSE ViewSnaps(w)
                /\ lock' = w
                /\ wr' = [wr EXCEPT ![w].pc = "loop", ![w].r = NoRec,
                                    ![w].is_new = FALSE, ![w].old = Null,
                                    ![w].new_count = CountNew(@, wr[w].is_new),
                                    ![w].intx = TRUE]
                /\ last' = Op("upsert", w, r)
                /\ UNCHANGED <<videos, snaps, clock, nrec, pin, pout>>

\* one pass of the loop body when no other connection is open: _parse_views,
\* the SELECT, the INSERT ... ON CONFLICT, the count and the snapshot
Save(w, r) ==
    /\ wr[w].pc = "loop"
    /\ lock \in {0, w}
    /\ LET p  == ParseViews(ViewsText(r))
           ex == Existing(ViewVideos(w), r.video_id, wr[w].query)
           is_new == (ex = {})
           old == IF ex = {} THEN Null ELSE (CHOOSE x \in ex : TRUE).views_int
       IN  IF p.tag = "raise" THEN RaiseOut(w, p.exc, 1)
           ELSE IF ~Has(r, "video_id")       \* KeyError before the SELECT
                THEN SkipRecord(w, r, "skip", wr[w].intx, wr[w].shared)
           ELSE IF r.missing # "none"        \* KeyError after the SELECT
                THEN SkipRecord(w, r, "skip", wr[w].intx, wr[w].intx)
           ELSE IF ~FitsSqlite(p)            \* OverflowError binding the INSERT
                THEN SkipRecord(w, r, "toobig", TRUE, wr[w].intx)
           ELSE /\ LET vi == ViewsIntOf(p) IN
                   /\ tvideos' = UpsertRow(ViewVideos(w), r, wr[w].query, wr[w].now, vi)
                   /\ tsnaps' = IF ShouldSnapshot(vi, is_new, old)
                                THEN AppendSnapshot(ViewSnaps(w), r.video_id, vi, wr[w].now)
                                ELSE ViewSnaps(w)
                /\ lock' = w
                /\ wr' = [wr EXCEPT ![w].any = TRUE,
                                    ![w].new_count = CountNew(@, is_new),
                                    ![w].intx = TRUE, ![w].shared = wr[w].intx]
                /\ last' = Op("upsert", w, r)
                /\ nrec' = nrec + 1
                /\ UNCHANGED <<videos, snaps, clock, pin, pout>>

\* the INSERT finds the file locked by another connection until the busy
\* timeout expires: sqlite3.OperationalError, caught by the except clause
UpsertBusy(w) ==
    /\ wr[w].pc = "upsert"
    /\ FitsSqlite(ParseViews(ViewsText(wr[w].r)))
    /\ lock \notin {0, w}
    /\ SkipRecord(w, wr[w].r, "busy", TRUE, wr[w].shared)

\* conn.commit(); conn.close(); return new_count
Commit(w) ==
    /\ wr[w].pc = "loop"
    /\ wr[w].any
    /\ lock = w => ~OthersShared(w)
    /\ videos' = ViewVideos(w)
    /\ snaps' = ViewSnaps(w)
    /\ lock' = IF lock = w THEN 0 ELSE lock
    /\ tvideos' = IF lock = w THEN {} ELSE tvideos
    /\ tsnaps' = IF lock = w THEN <<>> ELSE tsnaps
    /\ wr' = [wr EXCEPT ![w] = Idle]
    /\ last' = [op |-> "save_results", w |-> w, outcome |-> "return",
                ret |-> wr[w].new_count, bad |-> wr[w].bad]
    /\ UNCHANGED <<clock, nrec, pin, pout>>

\* conn.commit() cannot get the file for itself before the busy timeout,
\* another connection holding a read lock: sqlite3.OperationalError
CommitBusy(w) ==
    /\ wr[w].pc = "loop"
    /\ wr[w].any
    /\ lock = w
    /\ OthersShared(w)
    /\ RaiseOut(w, "OperationalError", 0)

(***************************************************************************)
(* get_trending.  Rows of view_snapshots with the same recorded_at are     *)
(* numbered by ROW_NUMBER() in an order the query plan decides, and rows   *)
(* of equal growth are returned in an order the sorter decides: both are   *)
(* choices.  video_id is carried in a result row only to tell whose row it *)
(* is; the query does not select it.                                       *)
(***************************************************************************)
SnapIdx(S, v) == { i \in 1..Len(S) : S[i].video_id = v }

\* a mutant of TopTwo: ORDER BY recorded_at ASC, the two oldest snapshots
TopTwoOldest(S, v) ==
    { p \in SnapIdx(S, v) \X SnapIdx(S, v) :
        /\ p[1] # p[2]
        /\ S[p[1]].recorded_at <= S[p[2]].recorded_at
        /\ \A k \in SnapIdx(S, v) \ {p[1], p[2]} :
              S[p[2]].recorded_at <= S[k].recorded_at }

\* the pairs <<rn = 1, rn = 2>> that ORDER BY recorded_at DESC allows
TopTwo(S, v) ==
    { p \in SnapIdx(S, v) \X SnapIdx(S, v) :
        /\ p[1] # p[2]
        /\ S[p[1]].recorded_at >= S[p[2]].recorded_at
        /\ \A k \in SnapIdx(S, v) \ {p[1], p[2]} :
              S[p[2]].recorded_at >= S[k].recorded_at }

\* (2a + b) \div 2b: a / b rounded to the nearest integer, for a >= 0, b > 0
RoundDiv(a, b) == (2 * a + b) \div (2 * b)

\* a mutant of GrowthPct: a zero previous value reported as 0 percent
GrowthPctZeroForZero(growth, prev) ==
    IF prev = 0 THEN Some(0) ELSE Some(RoundDiv(growth * 10000, prev))

\* ROUND(CAST(growth AS REAL) / NULLIF(prev_views, 0) * 100, 2), in hundredths
GrowthPct(growth, prev) ==
    IF prev = 0 THEN Null
    ELSE IF (growth >= 0) = (prev > 0)
         THEN Some(RoundDiv((IF growth >= 0 THEN growth ELSE 0 - growth) * 10000,
                            IF prev > 0 THEN prev ELSE 0 - prev))
         ELSE Some(0 - RoundDiv((IF growth >= 0 THEN growth ELSE 0 - growth) * 10000,
                                IF prev > 0 THEN prev ELSE 0 - prev))

TrendRow(x, latest, prev) ==
    [video_id |-> x.video_id, title |-> x.title, channel |-> x.channel,
     query |-> x.query, url |-> x.url, latest_views |-> latest,
     prev_views |-> prev, growth |-> latest - prev,
     growth_pct |-> GrowthPct(latest - prev, prev)]

\* FROM latest l JOIN previous p USING (video_id) JOIN videos v
\* ON v.video_id = l.video_id WHERE l.latest_views > p.prev_views
TrendRows(V, S, pick) ==
    { TrendRow(x, S[pick[x.video_id][1]].views_int, S[pick[x.video_id][2]].views_int) :
        x \in { y \in V : /\ y.video_id \in DOMAIN pick
                          /\ S[pick[y.video_id][1]].views_int
                               > S[pick[y.video_id][2]].views_int } }

\* ORDER BY growth DESC: the orders of the rows the sort may return
RECURSIVE SortedByGrowth(_)
SortedByGrowth(rows) ==
    IF rows = {} THEN { <<>> }
    ELSE UNION { { <<x>> \o s : s \in SortedByGrowth(rows \ {x}) } :
                 x \in { y \in rows : \A z \in rows : y.growth >= z.growth } }

\* a mutant of Limit: the last n rows instead of the first n
LimitTail(s, n) ==
    IF n < 0 \/ n >= Len(s) THEN s ELSE SubSeq(s, Len(s) - n + 1, Len(s))

\* LIMIT ?: a negative limit is no limit
Limit(s, n) == IF n < 0 \/ n >= Len(s) THEN s ELSE SubSeq(s, 1, n)

\* the video ids that have a row numbered 2
RankedVids(S) == { v \in Vids : Cardinality(SnapIdx(S, v)) >= 2 }

\* the numberings ROW_NUMBER() may produce: per video id, its rows 1 and 2
Picks(S) ==
    { pick \in [RankedVids(S) -> UNION { TopTwo(S, v) : v \in RankedVids(S) }] :
        \A v \in RankedVids(S) : pick[v] \in TopTwo(S, v) }

\* the lists the query may return
TrendResults(V, S, n) ==
    UNION { { Limit(s, n) : s \in SortedByGrowth(TrendRows(V, S, pick)) } :
            pick \in Picks(S) }

\* get_trending(limit), on a connection of its own
GetTrending(n) ==
    /\ \E res \in TrendResults(ReadVideos, ReadSnaps, n) :
         last' = [op |-> "get_trending", limit |-> n, ret |-> res]
    /\ UNCHANGED <<videos, snaps, lock, tvideos, tsnaps, wr, clock, nrec, pin, pout>>

(***************************************************************************)
(* get_duplicates.  MAX() of a TEXT column compares byte by byte (the      *)
(* BINARY collation), MAX() of an INTEGER column skips NULL.               *)
(***************************************************************************)
\* the byte of a character of the model's texts
CharCode(c) ==
    IF IsDigit(c) THEN 48 + DigitVal(c)
    ELSE CASE c = " " -> 32 [] c = "," -> 44 [] c = "-" -> 45 [] c = "." -> 46
           [] c = "/" -> 47 [] c = "A" -> 65 [] c = "B" -> 66 [] c = "K" -> 75
           [] c = "M" -> 77 [] c = "N" -> 78 [] c = "V" -> 86 [] c = "a" -> 97
           [] c = "b" -> 98 [] c = "c" -> 99 [] c = "e" -> 101 [] c = "f" -> 102
           [] c = "i" -> 105 [] c = "k" -> 107 [] c = "m" -> 109 [] c = "n" -> 110
           [] c = "o" -> 111 [] c = "s" -> 115 [] c = "t" -> 116 [] c = "v" -> 118
           [] c = "w" -> 119 [] c = "y" -> 121

\* memcmp order of two texts
RECURSIVE TextLeq(_, _)
TextLeq(s, t) ==
    IF s = <<>> THEN TRUE
    ELSE IF t = <<>> THEN FALSE
    ELSE IF s[1] # t[1] THEN CharCode(s[1]) < CharCode(t[1])
    ELSE TextLeq(Tail(s), Tail(t))

\* the characters of a title or a channel name of the model
NameChars(name) ==
    CASE name = "t1" -> <<"t", "1">> [] name = "t2" -> <<"t", "2">>
      [] name = "c1" -> <<"c", "1">> [] name = "c2" -> <<"c", "2">>

\* MAX(title), MAX(channel)
MaxName(names) == CHOOSE m \in names : \A o \in names : TextLeq(NameChars(o), NameChars(m))

\* MAX(views)
MaxText(texts) == CHOOSE m \in texts : \A o \in texts : TextLeq(o, m)

\* MAX(url): the urls differ in the video id only
MaxUrl(urls) == CHOOSE m \in urls : \A o \in urls : TextLeq(<<o[2]>>, <<m[2]>>)

\* MAX(views_int)
MaxInt(vals) ==
    IF vals \subseteq {Null} THEN Null
    ELSE CHOOSE m \in vals \ {Null} : \A o \in vals \ {Null} : o[1] <= m[1]

\* GROUP BY video_id
Group(V, v) == { x \in V : x.video_id = v }

QueriesOf(V, v) == { x.query : x \in Group(V, v) }

\* a mutant of IsDuplicate: HAVING COUNT(DISTINCT query) >= 1
IsDuplicateAtLeastOne(V, v) == Cardinality(QueriesOf(V, v)) >= 1

\* HAVING COUNT(DISTINCT query) > 1
IsDuplicate(V, v) == Cardinality(QueriesOf(V, v)) > 1

\* the SELECT list; GROUP_CONCAT(DISTINCT query) is kept as the set of the
\* queries it lists
DupRow(V, v) ==
    [video_id    |-> v,
     title       |-> MaxName({ x.title : x \in Group(V, v) }),
     channel     |-> MaxName({ x.channel : x \in Group(V, v) }),
     views_int   |-> MaxInt({ x.views_int : x \in Group(V, v) }),
     views       |-> MaxText({ x.views : x \in Group(V, v) }),
     query_count |-> Cardinality(QueriesOf(V, v)),
     queries     |-> QueriesOf(V, v),
     url         |-> MaxUrl({ x.url : x \in Group(V, v) })]

DupRows(V) == { DupRow(V, v) : v \in { w \in Vids : IsDuplicate(V, w) } }

\* ORDER BY query_count DESC, views_int DESC (NULL is the smallest value)
DupBefore(x, y) ==
    \/ x.query_count > y.query_count
    \/ /\ x.query_count = y.query_count
       /\ \/ y.views_int = Null
          \/ x.views_int # Null /\ x.views_int[1] >= y.views_int[1]

RECURSIVE DupSorted(_)
DupSorted(rows) ==
    IF rows = {} THEN { <<>> }
    ELSE UNION { { <<x>> \o s : s \in DupSorted(rows \ {x}) } :
                 x \in { y \in rows : \A z \in rows : DupBefore(y, z) } }

\* get_duplicates(), on a connection of its own
GetDuplicates ==
    /\ \E res \in DupSorted(DupRows(ReadVideos)) :
         last' = [op |-> "get_duplicates", ret |-> res]
    /\ UNCHANGED <<videos, snaps, lock, tvideos, tsnaps, wr, clock, nrec, pin, pout>>

(***************************************************************************)
(* Tracked queries: table tracked_queries with UNIQUE(query).              *)
(***************************************************************************)
Range(s) == { s[i] : i \in 1..Len(s) }

\* a mutant of InsertTracked: a table without UNIQUE(query)
InsertTrackedNoUnique(T, q) == [ok |-> TRUE, table |-> Append(T, q)]

\* INSERT INTO tracked_queries (query) VALUES (?); IntegrityError -> False
InsertTracked(T, q) ==
    IF q \in Range(T) THEN [ok |-> FALSE, table |-> T]
    ELSE [ok |-> TRUE, table |-> Append(T, q)]

\* DELETE FROM tracked_queries WHERE query = ?; removed = c.rowcount > 0
DeleteTracked(T, q) ==
    [ok |-> q \in Range(T), table |-> SelectSeq(T, LAMBDA x : x # q)]

TrackedOp(name, q, ret) == [op |-> name, q |-> q, ret |-> ret]

\* add_tracked_query(query)
AddTracked(q) ==
    /\ tracked' = InsertTracked(tracked, q).table
    /\ last' = TrackedOp("add_tracked_query", q, InsertTracked(tracked, q).ok)
    /\ UNCHANGED <<videos, snaps, lock, tvideos, tsnaps, wr, clock, nrec, pin, pout>>

\* remove_tracked_query(query)
RemoveTracked(q) ==
    /\ tracked' = DeleteTracked(tracked, q).table
    /\ last' = TrackedOp("remove_tracked_query", q, DeleteTracked(tracked, q).ok)
    /\ UNCHANGED <<videos, snaps, lock, tvideos, tsnaps, wr, clock, nrec, pin, pout>>

\* get_tracked_queries(): SELECT query FROM tracked_queries, a table scan
ListTracked ==
    /\ last' = [op |-> "get_tracked_queries", ret |-> tracked]
    /\ UNCHANGED <<videos, snaps, lock, tvideos, tsnaps, wr, clock, nrec, pin, pout,
                   tracked>>

(***************************************************************************)
(* The scheduler process: cmd_start_scheduler runs run_tracker once at     *)
(* start-up and then from schedule.run_pending().  run_tracker is at the   *)
(* head of its loop ("next"), inside scrape_youtube ("scrape") or inside   *)
(* save_results ("save", writer 1); between two runs the process sleeps.   *)
(* An exception nobody catches ends the process ("crashed", or "killed"    *)
(* when it is a KeyboardInterrupt); "stopped" is the clean end.  log keeps *)
(* for every run the queries it read and the sightings it stored.          *)
(***************************************************************************)
\* the second in which the next call starts: one later than the previous
\* call, or the same second once the clock of the model is at its end
Tick == IF clock < MaxTime THEN clock + 1 ELSE MaxTime

TrkOff == [pc |-> "off", todo |-> <<>>, run |-> 0, log |-> <<>>]

\* the ways scrape_youtube ends without results: the fetch raised, the page
\* has no ytInitialData, the JSON lacks the path to the sections
ScrapeEmpty == {"fetch_error", "no_data", "bad_structure"}

\* the ways scrape_youtube raises: json.loads on the matched text, the
\* subscripts of a section outside the try blocks
ScrapeRaises == {"bad_json", "bad_section"}

\* the records scrape_youtube returns to the tracker: every key present
TrackRecords ==
    { Rec("a", <<"t1", "c2">>, vw, "none") :
        vw \in { <<"1", "k">>, <<"1", ".", "5", "k">>, <<"i", "n", "f">> } }

\* run_tracker(): queries = get_tracked_queries(); if not queries: return
BeginRun ==
    trk' = [trk EXCEPT
              !.run = @ + 1,
              !.pc = IF tracked = <<>> THEN "sleep" ELSE "next",
              !.todo = tracked,
              !.log = Append(@, [queries |-> tracked, seen |-> {},
                                 done |-> tracked = <<>>])]

\* cmd_start_scheduler(): the run at start-up, outside the try block
StartScheduler ==
    /\ trk.pc = "off"
    /\ BeginRun
    /\ last' = [op |-> "start_scheduler"]
    /\ UNCHANGED <<videos, snaps, lock, tvideos, tsnaps, wr, clock, nrec, pin, pout,
                   tracked>>

\* schedule.run_pending() inside "try: while True", when a run is due
RunPending ==
    /\ trk.pc = "sleep"
    /\ trk.run < MaxRuns
    /\ BeginRun
    /\ last' = [op |-> "run_pending"]
    /\ UNCHANGED <<videos, snaps, lock, tvideos, tsnaps, wr, clock, nrec, pin, pout,
                   tracked>>

\* for query in queries: the next query, or the end of the run
NextQuery ==
    /\ trk.pc = "next"
    /\ trk' = IF trk.todo = <<>>
              THEN [trk EXCEPT !.pc = "sleep", !.log[trk.run].done = TRUE]
              ELSE [trk EXCEPT !.pc = "scrape"]
    /\ UNCHANGED <<videos, snaps, lock, tvideos, tsnaps, wr, clock, nrec, last,
                   pin, pout, tracked>>

\* results = scrape_youtube(query); if results: save_results(results, query)
Scrape(out) ==
    /\ trk.pc = "scrape"
    /\ IF out = "results"
       THEN /\ nrec < MaxTrackRecords
            /\ Start(1, Head(trk.todo), Tick)
            /\ trk' = [trk EXCEPT !.pc = "save"]
       ELSE /\ last' = [op |-> "scrape_youtube", q |-> Head(trk.todo), out |-> out,
                        outcome |-> IF out \in ScrapeRaises THEN "raise" ELSE "return"]
            /\ trk' = IF out \in ScrapeRaises
                      THEN [trk EXCEPT !.pc = "crashed"]
                      ELSE [trk EXCEPT !.pc = "next", !.todo = Tail(@)]
            /\ UNCHANGED <<videos, snaps, lock, tvideos, tsnaps, wr, clock, nrec,
                           pin, pout>>
    /\ UNCHANGED tracked

\* save_results takes a record of the batch; an exception that leaves it
\* leaves run_tracker too
TrackSave(r) ==
    /\ trk.pc = "save"
    /\ Save(1, r)
    /\ trk' = IF last'.op = "save_results"
              THEN [trk EXCEPT !.pc = "crashed"]
              ELSE IF last'.op = "upsert"
              THEN [trk EXCEPT !.log[trk.run].seen =
                        @ \cup { <<r.video_id, ViewsIntOf(ParseViews(r.views))>> }]
              ELSE trk
    /\ UNCHANGED tracked

\* save_results commits and returns; the loop goes to the next query
TrackCommit ==
    /\ trk.pc = "save"
    /\ Commit(1)
    /\ trk' = [trk EXCEPT !.pc = "next", !.todo = Tail(@)]
    /\ UNCHANGED tracked

\* Ctrl+C: Python raises KeyboardInterrupt where the main thread stands.
\* Only the loop after the start-up run is inside "except KeyboardInterrupt".
Interrupt ==
    /\ trk.pc \in {"next", "scrape", "save", "sleep"}
    /\ IF wr[1].pc # "idle"
       THEN RaiseOut(1, "KeyboardInterrupt", 0)
       ELSE /\ last' = [op |-> "interrupt"]
            /\ UNCHANGED <<videos, snaps, lock, tvideos, tsnaps, wr, clock, nrec,
                           pin, pout>>
    /\ trk' = [trk EXCEPT !.pc = IF trk.run = 1 /\ trk.pc # "sleep"
                                 THEN "killed" ELSE "stopped"]
    /\ UNCHANGED tracked

(***************************************************************************)
(* The metric parser on its own.                                           *)
(***************************************************************************)
Unset == [tag |-> "unset"]

Parse ==
    /\ pout = Unset
    /\ pout' = ParseViews(pin)
    /\ UNCHANGED storeVars
    /\ UNCHANGED pin

(***************************************************************************)
(* Specifications.                                                         *)
(***************************************************************************)
InitStore(procs, V, S) ==
    /\ videos = V
    /\ snaps = S
    /\ lock = 0
    /\ tvideos = {}
    /\ tsnaps = <<>>
    /\ wr = [w \in procs |-> Idle]
    /\ clock = 0
    /\ nrec = 0
    /\ last = [op |-> "init_db"]
    /\ tracked = <<>>
    /\ trk = TrkOff

Limits == (0 - 1)..MaxLimit

Quiet == \A w \in Procs : wr[w].pc = "idle"

\* one process calls save_results at a time (the design of the tool)
Next ==
    \/ \E w \in Procs, q \in Queries : Start(w, q, Tick) /\ UNCHANGED trackVars
    \/ \E w \in Procs, r \in Records :
          nrec < MaxRecords /\ Save(w, r) /\ UNCHANGED trackVars
    \/ \E w \in Procs : Commit(w) /\ UNCHANGED trackVars
    \/ Quiet /\ last.op # "get_duplicates" /\ GetDuplicates /\ UNCHANGED trackVars

Init == InitStore({1}, {}, <<>>) /\ pin = <<>> /\ pout = Unset

Spec == Init /\ [][Next]_vars

\* The trending report, read between the calls of the one writer (a read
\* leaves the store as it is, so one read is taken between two writes).  The
\* store is empty at first, or holds what save_results leaves when it saves
\* video a with 0 views and video b with 1K views under q1 in second 0.
SeedRow(v, vw) ==
    NewRow(Rec(v, <<"t1", "c2">>, vw, "none"), "q1", 0, ViewsIntOf(ParseViews(vw)))

SeedSnaps == AppendSnapshot(AppendSnapshot(<<>>, "a", Some(0), 0), "b", Some(1000), 0)

InitTrend ==
    /\ \/ InitStore({1}, {}, <<>>)
       \/ InitStore({1}, { SeedRow("a", <<"0">>), SeedRow("b", <<"1", "k">>) }, SeedSnaps)
    /\ pin = <<>> /\ pout = Unset

NextTrend ==
    \/ \E w \in Procs, q \in Queries : Start(w, q, Tick) /\ UNCHANGED trackVars
    \/ \E w \in Procs, r \in TrendRecords :
          nrec < MaxTrendRecords /\ Save(w, r) /\ UNCHANGED trackVars
    \/ \E w \in Procs : Commit(w) /\ UNCHANGED trackVars
    \/ \E n \in Limits :
          Quiet /\ last.op # "get_trending" /\ GetTrending(n) /\ UNCHANGED trackVars

SpecTrend == InitTrend /\ [][NextTrend]_vars

\* The read operations at any moment, also while the one writer is inside
\* a batch.
NextRead ==
    \/ \E w \in Procs, q \in Queries : Start(w, q, Tick) /\ UNCHANGED trackVars
    \/ \E w \in Procs, r \in ReadRecords :
          nrec < MaxReadRecords /\ Save(w, r) /\ UNCHANGED trackVars
    \/ \E w \in Procs : Commit(w) /\ UNCHANGED trackVars
    \/ \E n \in Limits :
          last.op # "get_trending" /\ GetTrending(n) /\ UNCHANGED trackVars
    \/ last.op # "get_duplicates" /\ GetDuplicates /\ UNCHANGED trackVars

SpecRead == InitTrend /\ [][NextRead]_vars

\* two processes call save_results at the same time
InitConc == InitStore({1, 2}, {}, <<>>) /\ pin = <<>> /\ pout = Unset

NextConc ==
    \/ \E w \in Procs, q \in Queries, t \in 0..MaxConcTime :
          Start(w, q, t) /\ UNCHANGED trackVars
    \/ \E w \in Procs, r \in ConcRecords :
          nrec < MaxConcRecords /\ Fetch(w, r) /\ UNCHANGED trackVars
    \/ \E w \in Procs : Upsert(w) /\ UNCHANGED trackVars
    \/ \E w \in Procs : UpsertBusy(w) /\ UNCHANGED trackVars
    \/ \E w \in Procs : Commit(w) /\ UNCHANGED trackVars
    \/ \E w \in Procs : CommitBusy(w) /\ UNCHANGED trackVars

SpecConc == InitConc /\ [][NextConc]_vars

\* The scheduler with its tracker runs; between the runs (and before the
\* scheduler starts) the user tracks and untracks queries and reads the
\* trending report from the command line.
Calm == trk.pc \in {"off", "sleep"}

InitTrack == InitStore({1}, {}, <<>>) /\ pin = <<>> /\ pout = Unset

NextTrack ==
    \/ \E q \in Queries : Calm /\ AddTracked(q) /\ UNCHANGED trk
    \/ \E q \in Queries : Calm /\ RemoveTracked(q) /\ UNCHANGED trk
    \/ Calm /\ ListTracked /\ UNCHANGED trk
    \/ StartScheduler
    \/ RunPending
    \/ NextQuery
    \/ \E out \in {"results"} \cup ScrapeEmpty \cup ScrapeRaises : Scrape(out)
    \/ \E r \in TrackRecords : nrec < MaxTrackRecords /\ TrackSave(r)
    \/ TrackCommit
    \/ Interrupt
    \/ \E n \in Limits :
          trk.pc = "sleep" /\ last.op # "get_trending" /\ GetTrending(n)
          /\ UNCHANGED trackVars

SpecTrack == InitTrack /\ [][NextTrack]_vars

\* The command line, one command at a time: search, track, untrack, tracked.
InitCli == InitStore({1}, {}, <<>>) /\ pin = <<>> /\ pout = Unset

NextCli ==
    \/ \E q \in Queries : Quiet /\ AddTracked(q) /\ UNCHANGED trk
    \/ \E q \in Queries : Quiet /\ RemoveTracked(q) /\ UNCHANGED trk
    \/ Quiet /\ ListTracked /\ UNCHANGED trk
    \/ \E w \in Procs, q \in Queries : Start(w, q, Tick) /\ UNCHANGED trackVars
    \/ \E w \in Procs, r \in TrackRecords :
          nrec < MaxRecords /\ Save(w, r) /\ UNCHANGED trackVars
    \/ \E w \in Procs : Commit(w) /\ UNCHANGED trackVars

SpecCli == InitCli /\ [][NextCli]_vars

\* _parse_views applied to one text
InitParse == InitStore({1}, {}, <<>>) /\ pin \in Texts(MaxTok) /\ pout = Unset

SpecParse == InitParse /\ [][Parse]_vars

(***************************************************************************)
(* Claims.                                                                 *)
(***************************************************************************)

\* the keys (video_id, query) of a set of rows
Pairs(rows) == { <<x.video_id, x.query>> : x \in rows }

UniquePairs(rows) ==
    \A x, y \in rows : (x.video_id = y.video_id /\ x.query = y.query) => x = y

\* the step just taken stored the record last'.r through the INSERT
Stored == last'.op = "upsert"

\* C1: whatever save_results calls have run, including two at the same
\* time, table videos holds at most one row per (video_id, query), in the
\* committed file and inside every open transaction, and storing a record
\* leaves every row of another (video_id, query) as it was, the record's own
\* pair having exactly one row afterwards.
C1_OneRowPerPair ==
    /\ [](UniquePairs(videos) /\ UniquePairs(tvideos))
    /\ [][Stored =>
            LET w == last'.w
                r == last'.r
            IN  /\ \A x \in ViewVideos(w) :
                      (x.video_id # r.video_id \/ x.query # wr[w].query) => x \in tvideos'
                /\ Cardinality(Existing(tvideos', r.video_id, wr[w].query)) = 1
                /\ Pairs(tvideos') = Pairs(ViewVideos(w)) \cup { <<r.video_id, wr[w].query>> }
         ]_vars

\* C1 witness: two calls looked the same pair up before either had stored
\* it; one has stored and committed it since, and the other, which still
\* takes the pair for new, has stored it too.
C1_Witness ==
    /\ last.op = "upsert"
    /\ wr[last.w].new_count = 1
    /\ \E x \in videos :
          /\ x.video_id = last.r.video_id /\ x.query = wr[last.w].query
          /\ x.views # last.r.views
    /\ Cardinality(Existing(tvideos, last.r.video_id, wr[last.w].query)) = 1

\* C2: for every record that save_results stores, exactly one snapshot
\* (video_id, parsed views_int, now) is appended if the parsed views_int is
\* not null and either the pair had no row before the record or the row's
\* views_int differed; otherwise no snapshot is appended.  A known pair is
\* not counted as new.
C2_SnapshotIffChanged ==
    [][Stored =>
         LET w  == last'.w
             r  == last'.r
             vi == ViewsIntOf(ParseViews(r.views))
             ex == Existing(ViewVideos(w), r.video_id, wr[w].query)
         IN  /\ IF vi # Null /\ (ex = {} \/ \E x \in ex : x.views_int # vi)
                THEN tsnaps' = ViewSnaps(w) \o
                        << [video_id |-> r.video_id, views_int |-> vi[1],
                            recorded_at |-> wr[w].now] >>
                ELSE tsnaps' = ViewSnaps(w)
             /\ ex # {} => wr'[w].new_count = wr[w].new_count
      ]_vars

\* C2 witness: a call has stored a record of a known pair with a metric that
\* differs from the stored one: one snapshot more, nothing counted as new.
C2_Witness ==
    /\ last.op = "upsert"
    /\ lock = last.w
    /\ Len(tsnaps) = Len(snaps) + 1
    /\ wr[last.w].new_count = 0
    /\ \E x \in videos : x.video_id = last.r.video_id /\ x.query = wr[last.w].query
                         /\ x.views_int # Null

\* C3 (as claimed): storing a record of a pair that has a row overwrites
\* title, channel, duration, views_raw, views_int and scraped_at of the row
\* with the values of the new sighting.
C3_AllFieldsOverwritten ==
    [][(Stored /\ Existing(ViewVideos(last'.w), last'.r.video_id, wr[last'.w].query) # {}) =>
         LET w == last'.w
             r == last'.r
         IN  \A x \in Existing(tvideos', r.video_id, wr[w].query) :
                 /\ x.title = r.title
                 /\ x.channel = r.channel
                 /\ x.duration = DurationOf(r.title)
                 /\ x.views = r.views
                 /\ x.views_int = ViewsIntOf(ParseViews(r.views))
                 /\ x.scraped_at = wr[w].now
      ]_vars

\* C3 (amended): storing a record of a pair that has a row overwrites
\* views_raw, views_int and scraped_at of the row with the values of the new
\* sighting; title, channel, duration and url keep the values of the first
\* sighting.
C3_ViewsOverwrittenOnly ==
    [][(Stored /\ Existing(ViewVideos(last'.w), last'.r.video_id, wr[last'.w].query) # {}) =>
         LET w == last'.w
             r == last'.r
             old == CHOOSE x \in Existing(ViewVideos(w), r.video_id, wr[w].query) : TRUE
         IN  \A x \in Existing(tvideos', r.video_id, wr[w].query) :
                 /\ x.views = r.views
                 /\ x.views_int = ViewsIntOf(ParseViews(r.views))
                 /\ x.scraped_at = wr[w].now
                 /\ x.title = old.title
                 /\ x.channel = old.channel
                 /\ x.duration = old.duration
                 /\ x.url = old.url
      ]_vars

\* C3 witness: a later call has stored a sighting with another title, another
\* channel and another metric over the row of its pair.
C3_Witness ==
    /\ last.op = "upsert"
    /\ \E x \in tvideos :
          /\ x.video_id = last.r.video_id /\ x.query = wr[last.w].query
          /\ x.title # last.r.title /\ x.channel # last.r.channel
          /\ x.views = last.r.views
          /\ x.scraped_at = wr[last.w].now
          /\ \E y \in videos : /\ y.video_id = x.video_id /\ y.query = x.query
                               /\ y.views # x.views /\ y.scraped_at < x.scraped_at

\* C4: save_results returns the number of (video_id, query) pairs that were
\* absent from table videos before the call and are present after it, which
\* is the growth of the row count.
C4_ReturnsNewPairs ==
    [][(last'.op = "save_results" /\ last'.outcome = "return") =>
         /\ last'.ret = Cardinality(Pairs(videos') \ Pairs(videos))
         /\ last'.ret = Cardinality(videos') - Cardinality(videos)
      ]_vars

\* C4 witness: a call that met a new pair twice (two snapshots, one row) and
\* skipped a malformed record has returned 1.
C4_Witness ==
    /\ last.op = "save_results" /\ last.outcome = "return"
    /\ last.ret = 1 /\ last.bad
    /\ Cardinality(videos) = 1 /\ Len(snaps) = 2

\* C5: a record that lacks a required field is skipped without a row or a
\* snapshot written for it and the loop goes on; what the batch stored is
\* committed and the call returns normally.
C5_MalformedSkipped ==
    /\ [][last'.op = "skip" =>
            /\ <<videos, snaps, tvideos, tsnaps>>' = <<videos, snaps, tvideos, tsnaps>>
            /\ wr'[last'.w].pc = "loop"
         ]_vars
    /\ [][(last'.op = "save_results" /\ last'.bad) =>
            /\ last'.outcome = "return"
            /\ lock = last'.w => (videos' = tvideos /\ snaps' = tsnaps)
         ]_vars

\* C6: the metric parser never raises to its caller: for every text it
\* returns an integer or None, and the placeholder texts "", "N/A" and
\* "No views" give None.
C6_ParserNeverRaises ==
    pout # Unset =>
        /\ pout.tag \in {"None", "int"}
        /\ (pin \in Placeholders => pout = None)

\* the step just taken was a get_trending call; last.ret is what it returned
Read == last.op = "get_trending"

\* the positions of the rows of video v in the returned list
RowsOf(v) == { i \in 1..Len(last.ret) : last.ret[i].video_id = v }

\* <<i, j>>: no snapshot of v was recorded after snapshot i, and none but i
\* was recorded after snapshot j
NewestPairs(v) ==
    { p \in SnapIdx(snaps, v) \X SnapIdx(snaps, v) :
        /\ p[1] # p[2]
        /\ ~ \E k \in SnapIdx(snaps, v) :
                snaps[k].recorded_at > snaps[p[1]].recorded_at
        /\ ~ \E k \in SnapIdx(snaps, v) \ {p[1]} :
                snaps[k].recorded_at > snaps[p[2]].recorded_at }

Observed(v) == \E x \in videos : x.video_id = v

\* v has two snapshots and its latest value exceeds the previous one,
\* whichever way equal recorded_at values are ordered
Qualifies(v) ==
    /\ Observed(v)
    /\ NewestPairs(v) # {}
    /\ \A p \in NewestPairs(v) : snaps[p[1]].views_int > snaps[p[2]].views_int

\* C7: get_trending decides from the two most recent snapshots of a video
\* by recorded_at only: every returned row carries the latest and the
\* previous value with latest > previous and growth = latest - previous; a
\* video with fewer than two snapshots, or whose latest value does not
\* exceed the previous one, has no row whatever its older snapshots say; an
\* observed video whose latest value exceeds the previous one has a row when
\* no limit cuts the list.
C7_TwoMostRecent ==
    Read =>
        \A v \in Vids :
            /\ \A i \in RowsOf(v) :
                  \E p \in NewestPairs(v) :
                      /\ last.ret[i].latest_views = snaps[p[1]].views_int
                      /\ last.ret[i].prev_views = snaps[p[2]].views_int
                      /\ last.ret[i].latest_views > last.ret[i].prev_views
                      /\ last.ret[i].growth =
                            snaps[p[1]].views_int - snaps[p[2]].views_int
            /\ Cardinality(SnapIdx(snaps, v)) < 2 => RowsOf(v) = {}
            /\ (\A p \in NewestPairs(v) :
                    snaps[p[1]].views_int <= snaps[p[2]].views_int) => RowsOf(v) = {}
            /\ (last.limit < 0 /\ Qualifies(v)) => RowsOf(v) # {}

\* C7 witness: a video whose values went up and then down, at three
\* different seconds, is absent from an unlimited trending list.
C7_Witness ==
    /\ Read /\ last.limit < 0
    /\ \E v \in Vids :
          /\ RowsOf(v) = {}
          /\ \E i, j, k \in SnapIdx(snaps, v) :
                /\ snaps[i].recorded_at < snaps[j].recorded_at
                /\ snaps[j].recorded_at < snaps[k].recorded_at
                /\ snaps[i].views_int < snaps[j].views_int
                /\ snaps[k].views_int < snaps[j].views_int

\* C8: the list get_trending returns holds at most one row per video_id.
C8_OneRowPerVideo ==
    Read => \A v \in Vids : Cardinality(RowsOf(v)) <= 1

\* C9: for a positive limit get_trending returns at most limit rows, in
\* order of growth from the largest down, and a qualifying video is left out
\* only of a full list none of whose rows has a smaller growth than it.
C9_OrderedAndLimited ==
    (Read /\ last.limit > 0) =>
        /\ Len(last.ret) <= last.limit
        /\ \A i, j \in 1..Len(last.ret) :
              i < j => last.ret[i].growth >= last.ret[j].growth
        /\ \A v \in Vids :
              (Qualifies(v) /\ RowsOf(v) = {}) =>
                  /\ Len(last.ret) = last.limit
                  /\ \A i \in 1..Len(last.ret) :
                        \E p \in NewestPairs(v) :
                            snaps[p[1]].views_int - snaps[p[2]].views_int
                                <= last.ret[i].growth

\* C9 witness: with limit 1, of two qualifying videos the one with the
\* strictly larger growth is returned and the other is left out.
C9_Witness ==
    /\ Read /\ last.limit = 1 /\ Len(last.ret) = 1
    /\ \E v \in Vids :
          /\ Qualifies(v) /\ RowsOf(v) = {}
          /\ \A p \in NewestPairs(v) :
                snaps[p[1]].views_int - snaps[p[2]].views_int < last.ret[1].growth

\* C10: in every returned row growth = latest - previous; when the previous
\* value is 0 the row is still returned, with growth equal to the latest
\* value and a null growth_pct; otherwise growth_pct is growth / previous *
\* 100 rounded to two decimals (1000 -> 1500 gives growth 500 and 50.00).
C10_GrowthPct ==
    Read =>
        /\ \A i \in 1..Len(last.ret) :
              LET x == last.ret[i]
              IN  /\ x.growth = x.latest_views - x.prev_views
                  /\ x.prev_views = 0 =>
                        (x.growth_pct = Null /\ x.growth = x.latest_views)
                  /\ x.prev_views > 0 =>
                        /\ x.growth_pct # Null
                        /\ 2 * (x.growth_pct[1] * x.prev_views - x.growth * 10000)
                              <= x.prev_views
                        /\ 2 * (x.growth * 10000 - x.growth_pct[1] * x.prev_views)
                              <= x.prev_views
                  /\ (x.prev_views = 1000 /\ x.latest_views = 1500) =>
                        (x.growth = 500 /\ x.growth_pct = Some(5000))
        /\ \A v \in Vids :
              ( /\ last.limit < 0
                /\ Qualifies(v)
                /\ \A p \in NewestPairs(v) : snaps[p[2]].views_int = 0 )
              => RowsOf(v) # {}

\* C10 witness: one list holds a row that grew from 0, with a null
\* percentage, and a row that grew from 1000 to 1500, with 50.00 percent.
C10_Witness ==
    /\ Read
    /\ \E i, j \in 1..Len(last.ret) :
          /\ last.ret[i].prev_views = 0 /\ last.ret[i].latest_views > 0
          /\ last.ret[i].growth_pct = Null
          /\ last.ret[j].prev_views = 1000 /\ last.ret[j].latest_views = 1500
          /\ last.ret[j].growth_pct = Some(5000)

\* the step just taken was a get_duplicates call; last.ret is what it returned
ReadDup == last.op = "get_duplicates"

\* C11: get_duplicates lists a video_id if and only if table videos holds it
\* under more than one query; it lists it once, with query_count equal to the
\* number of its distinct queries.
C11_DuplicatesIffManyQueries ==
    ReadDup =>
        \A v \in Vids :
            LET qs   == { x.query : x \in { y \in videos : y.video_id = v } }
                rows == { i \in 1..Len(last.ret) : last.ret[i].video_id = v }
            IN  /\ (rows # {}) <=> (Cardinality(qs) > 1)
                /\ Cardinality(rows) <= 1
                /\ \A i \in rows : last.ret[i].query_count = Cardinality(qs)

\* C11 witness: the list holds the video stored under two queries and not
\* the video that was saved under one query only, where it has a snapshot.
C11_Witness ==
    /\ ReadDup
    /\ Len(last.ret) = 1 /\ last.ret[1].query_count = 2
    /\ \E x \in videos : x.video_id # last.ret[1].video_id
    /\ \E i \in 1..Len(snaps) : snaps[i].video_id # last.ret[1].video_id

\* C12: every row get_duplicates returns shows title, channel, views_int,
\* views and url of one stored row of its video_id.
C12_FieldsOfOneRow ==
    ReadDup =>
        \A i \in 1..Len(last.ret) :
            \E x \in videos :
                /\ x.video_id = last.ret[i].video_id
                /\ x.title = last.ret[i].title
                /\ x.channel = last.ret[i].channel
                /\ x.views_int = last.ret[i].views_int
                /\ x.views = last.ret[i].views
                /\ x.url = last.ret[i].url

\* C15: in the snapshots of a video_id, taken in the order they were
\* recorded, no two neighbours carry the same views_int.
C15_ChangeLog ==
    \A v \in Vids :
        \A i, j \in SnapIdx(snaps, v) :
            (i < j /\ ~ \E k \in SnapIdx(snaps, v) : i < k /\ k < j)
                => snaps[i].views_int # snaps[j].views_int

\* C14: when scrape_youtube fails for a query of a tracker run, in the fetch
\* or in reading the fetched page, it returns no results and the run goes on
\* with the queries that are left.
C14_ScrapeFailureContinues ==
    [][last'.op = "scrape_youtube" =>
          /\ last'.outcome = "return"
          /\ trk'.pc = "next"
          /\ trk'.todo = Tail(trk.todo)
      ]_vars

\* C16: after two tracker runs over the same tracked queries, both run to
\* their end, a video that the first run stored with v1 only and the second
\* with v2 > v1 only is in a trending list that the limit did not cut, with
\* growth v2 - v1.
C16_TwoRunsTrending ==
    ( /\ Read
      /\ trk.pc = "sleep"
      /\ Len(trk.log) = 2
      /\ trk.log[1].done /\ trk.log[2].done
      /\ Range(trk.log[1].queries) = Range(trk.log[2].queries)
      /\ Len(last.ret) < last.limit )
    => \A v \in Vids :
          \A s1 \in trk.log[1].seen, s2 \in trk.log[2].seen :
              ( /\ s1[1] = v /\ s2[1] = v
                /\ \A o \in trk.log[1].seen : o[1] = v => o = s1
                /\ \A o \in trk.log[2].seen : o[1] = v => o = s2
                /\ s1[2] # Null /\ s2[2] # Null
                /\ s2[2][1] > s1[2][1] )
              => \E i \in RowsOf(v) : last.ret[i].growth = s2[2][1] - s1[2][1]

\* C17: Ctrl+C ends the scheduler only between two queries, never inside the
\* scrape or the save of a query, and the scheduler then ends cleanly, in
\* the run at start-up as in the timed runs.
C17_StopBetweenQueries ==
    [][(trk'.pc \in {"stopped", "killed"} /\ trk.pc \notin {"stopped", "killed"}) =>
          /\ trk.pc \in {"next", "sleep"}
          /\ wr[1].pc = "idle"
          /\ trk'.pc = "stopped"
      ]_vars

NoRepeats(s) == \A i, j \in 1..Len(s) : s[i] = s[j] => i = j

\* C13: add_tracked_query(q) returns true exactly when q was not tracked
\* and q is tracked afterwards; remove_tracked_query(q) returns true exactly
\* when q was tracked, q is not tracked afterwards and tables videos and
\* view_snapshots are as before; neither changes another query;
\* get_tracked_queries returns every tracked query once.
C13_TrackedQueries ==
    /\ [][last'.op = "add_tracked_query" =>
             /\ last'.ret = (last'.q \notin Range(tracked))
             /\ Range(tracked') = Range(tracked) \cup {last'.q}
         ]_vars
    /\ [][last'.op = "remove_tracked_query" =>
             /\ last'.ret = (last'.q \in Range(tracked))
             /\ Range(tracked') = Range(tracked) \ {last'.q}
             /\ videos' = videos /\ snaps' = snaps
         ]_vars
    /\ [](last.op = "get_tracked_queries" =>
             (NoRepeats(last.ret) /\ Range(last.ret) = Range(tracked)))
    /\ [](NoRepeats(tracked))

\* C13 witness: a query that has observation rows and snapshots was tracked
\* and has been removed, another one is still tracked.
C13_Witness ==
    /\ last.op = "remove_tracked_query" /\ last.ret
    /\ Len(tracked) = 1
    /\ \E x \in videos : x.query = last.q
    /\ snaps # <<>>

\* every snapshot a reader sees has an observation row of its video_id, and
\* every views_int it sees in an observation row has its snapshot
SeesConsistent ==
    /\ \A i \in 1..Len(ReadSnaps) :
          \E x \in ReadVideos : x.video_id = ReadSnaps[i].video_id
    /\ \A x \in ReadVideos :
          x.views_int # Null =>
              \E i \in 1..Len(ReadSnaps) :
                  /\ ReadSnaps[i].video_id = x.video_id
                  /\ ReadSnaps[i].views_int = x.views_int[1]
                  /\ ReadSnaps[i].recorded_at <= x.scraped_at

====
